---- MODULE Spec2Model ----
(***************************************************************************)
(* Model of src/app.py: download_pdf (the fetcher) and download_fda_pdfs   *)
(* (the batch coordinator over a ThreadPoolExecutor).                      *)
(*                                                                         *)
(* A Python str is modelled as a sequence of atoms; the characters of an   *)
(* identifier are one-character atoms, fixed literals ("pdf", ".pdf", the  *)
(* host name) are single atoms.                                            *)
(*                                                                         *)
(* open(path, "wb") is modelled write-through: every f.write reaches the   *)
(* file at the writer's own offset.  Two fetches of the same URL are       *)
(* served the same body.                                                   *)
(***************************************************************************)
EXTENDS Integers, Sequences, FiniteSets, TLC

VARIABLES
    k_numbers,    \* argument of download_fda_pdfs: the list of raw identifiers
    max_workers,  \* argument of download_fda_pdfs
    dir,          \* the output directory: "absent", "preexisting" or "created"
    files,        \* the files of the output directory: path -> sequence of chunks
    pc,           \* position of the download_fda_pdfs call
    nsub,         \* number of identifiers submitted to the executor so far
    ci,           \* index of the future the collection loop is waiting on
    tasks,        \* one record per future / download_pdf invocation
    results,      \* the dict built by download_fda_pdfs
    completed,    \* history: the invocations in the order they finished
    summary       \* the printed summary line, <<>> before it is printed

vars == <<k_numbers, max_workers, dir, files, pc, nsub, ci, tasks, results,
          completed, summary>>

-----------------------------------------------------------------------------
(* Bounds of the model *)

MaxBatch == 2      \* longest identifier list of a concurrent batch
MaxLen == 3        \* longest identifier drawn from the alphabet
NChunks == 2       \* chunks of a response body

-----------------------------------------------------------------------------
(* Strings *)

Min(a, b) == IF a < b THEN a ELSE b

Whitespace == {" ", "\t"}

\* the upper-case forms of the lower-case letters the inputs are made of
LowerToUpper ==
    [c \in {"a", "b", "d", "i", "k"} |->
        CASE c = "a" -> "A" [] c = "b" -> "B" [] c = "d" -> "D"
          [] c = "i" -> "I" [] c = "k" -> "K"]

\* str.upper on one character
UpperChar(c) == IF c \in DOMAIN LowerToUpper THEN LowerToUpper[c] ELSE c

\* str.upper
Upper(s) == [j \in 1..Len(s) |-> UpperChar(s[j])]

RECURSIVE LStrip(_)
LStrip(s) == IF s # <<>> /\ Head(s) \in Whitespace THEN LStrip(Tail(s)) ELSE s

RECURSIVE RStrip(_)
RStrip(s) ==
    IF s # <<>> /\ s[Len(s)] \in Whitespace
    THEN RStrip(SubSeq(s, 1, Len(s) - 1))
    ELSE s

\* str.strip
Strip(s) == RStrip(LStrip(s))

\* s.startswith(p) for a one-character p
StartsWith(s, p) == s # <<>> /\ Head(s) = p

\* the Python slice s[a:b], 0 <= a <= b
Slice(s, a, b) == SubSeq(s, a + 1, Min(b, Len(s)))

\* last index of atom c in s, 0 when absent
RECURSIVE LastIndexOf(_, _)
LastIndexOf(s, c) ==
    IF s = <<>> THEN 0
    ELSE IF s[Len(s)] = c THEN Len(s)
    ELSE LastIndexOf(SubSeq(s, 1, Len(s) - 1), c)

\* characters urllib.parse removes from a URL before splitting it
UnsafeUrlChars == {"\t"}

IsSafeUrlChar(c) == c \notin UnsafeUrlChars

\* urllib.parse.urljoin(base, rel) for a relative path rel with no scheme, no
\* leading slash, no dot segments, no query and no fragment: the unsafe
\* characters are removed and the last segment of base's path is replaced by rel
Urljoin(base, rel) ==
    SubSeq(base, 1, LastIndexOf(base, "/")) \o SelectSeq(rel, IsSafeUrlChar)

\* os.path.join(d, name) for a relative name
PathJoin(d, name) == IF d # <<>> /\ d[Len(d)] = "/" THEN d \o name ELSE d \o <<"/">> \o name

-----------------------------------------------------------------------------
(* download_pdf: the pure part *)

base_url == <<"https:", "/", "/", "www.accessdata.fda.gov", "/", "cdrh_docs", "/">>

output_dir == <<"fda_pdfs">>

\* the default of max_workers
DefaultMaxWorkers == 5

\* PrependsK that prepends unconditionally
PrependsKAlways(k) == TRUE

PrependsK(k) == ~StartsWith(k, "K")

Normalize(raw) ==
    LET k == Upper(Strip(raw))
    IN  IF PrependsK(k) THEN <<"K">> \o k ELSE k

\* Year with the slice k_number[2:4]
YearOffByOne(k) == Slice(k, 2, 4)

Year(k) == Slice(k, 1, 3)

RelPath(k) == <<"pdf">> \o Year(k) \o <<"/">> \o k \o <<".pdf">>

Url(k) == Urljoin(base_url, RelPath(k))

OutputPath(k) == PathJoin(output_dir, k \o <<".pdf">>)

\* the body the server holds for a URL, in chunks of chunk_size bytes
Body(url) == [j \in 1..NChunks |-> <<url, j>>]

-----------------------------------------------------------------------------
(* Inputs *)

Alphabet == {"K", "k", "2", "b", " ", "\t"}

RECURSIVE StringsUpTo(_)
StringsUpTo(n) ==
    IF n = 0 THEN {<<>>}
    ELSE LET shorter == StringsUpTo(n - 1)
         IN  shorter \cup {Append(s, c) : s \in shorter, c \in Alphabet}

Examples ==
    { <<"K", "2", "4", "1", "3", "8", "0">>,
      <<"2", "4", "1", "3", "8", "0">>,
      <<" ", "k", "2", "4", "1", "3", "8", "0", " ">>,
      <<"b", "a", "d", "i", "d">> }

\* identifiers of the concurrent batches
BatchIds ==
    { <<" ", "k", "2", "4", "1", "3", "8", "0", " ">>,
      <<"b", "a", "d", "i", "d">> }

RECURSIVE ListsUpTo(_, _)
ListsUpTo(S, n) ==
    IF n = 0 THEN {<<>>}
    ELSE LET shorter == ListsUpTo(S, n - 1)
         IN  shorter \cup {Append(l, x) : l \in shorter, x \in S}

\* the values of max_workers: one worker, fewer workers than identifiers,
\* and the default
WorkerCounts == {1, 2, DefaultMaxWorkers}

\* the identifier lists download_fda_pdfs is called with
Batches ==
    ListsUpTo(BatchIds, MaxBatch)
        \cup {<<s>> : s \in StringsUpTo(MaxLen) \cup Examples}

-----------------------------------------------------------------------------
(* State *)

N == Len(k_numbers)

\* exceptions requests raises: subclasses of requests.exceptions.RequestException
ConnectErrors == {"ConnectionError", "Timeout"}
StatusErrors == {"HTTPError"}
StreamErrors == {"ChunkedEncodingError"}
RequestExceptions == ConnectErrors \cup StatusErrors \cup StreamErrors

\* exceptions of open and f.write
FileErrors == {"OSError"}

\* a future before its work item has run: no result, no exception
NoResult == [k_number |-> <<>>, success |-> FALSE, result |-> <<>>]

NewTask ==
    [st |-> "new", k_number |-> <<>>, url |-> <<>>, output_path |-> <<>>,
     pos |-> 0, ret |-> NoResult, exc |-> "none"]

Init ==
    /\ k_numbers \in Batches
    /\ max_workers \in WorkerCounts
    /\ dir \in {"absent", "preexisting"}
    /\ files = <<>>
    /\ pc = "makedirs"
    /\ nsub = 0
    /\ ci = 1
    /\ tasks = [i \in 1..Len(k_numbers) |-> NewTask]
    /\ results = [successful |-> <<>>, failed |-> <<>>]
    /\ completed = <<>>
    /\ summary = <<>>

DirExists == dir # "absent"

\* Finished with a future that is merely no longer pending taken as done
NotPending(t) == t.st \notin {"new", "queued"}

\* the future's work item has run to its end: it returned or it raised
Finished(t) == t.st \in {"returned", "raised"}

\* a download_pdf invocation occupies a worker thread
Running(t) == t.st \in {"get", "open", "stream"}

NumRunning == Cardinality({i \in 1..N : Running(tasks[i])})

\* WorkerFree with one thread per submitted work item
WorkerAlwaysFree == TRUE

\* a thread of the pool is idle or can still be created
WorkerFree == NumRunning < max_workers

\* the work queue of the executor is first in, first out
HeadOfQueue(i) ==
    /\ tasks[i].st = "queued"
    /\ \A j \in 1..(i - 1) : tasks[j].st # "queued"

-----------------------------------------------------------------------------
(* download_pdf: one invocation, step by step *)

Success(k, path) == [k_number |-> k, success |-> TRUE, result |-> path]

Failure(k, e) == [k_number |-> k, success |-> FALSE, result |-> <<e>>]

\* Catches with "except requests.exceptions.HTTPError"
CatchesHTTPErrorOnly(e) == e \in StatusErrors

\* except requests.exceptions.RequestException as e
Catches(e) == e \in RequestExceptions

\* HandleException with the except clause raising again
HandleExceptionReraise(t, e) == [t EXCEPT !.st = "raised", !.exc = e]

\* an exception e raised inside the try block of invocation t
HandleException(t, e) ==
    IF Catches(e)
    THEN [t EXCEPT !.st = "returned", !.ret = Failure(t.k_number, e)]
    ELSE [t EXCEPT !.st = "raised", !.exc = e]

\* open(path, "wb"): the file is created, or truncated when it exists
Truncate(fs, path) ==
    [p \in DOMAIN fs \cup {path} |-> IF p = path THEN <<>> ELSE fs[p]]

\* a write of chunk c at offset pos of a file; a gap left by a truncation
\* behind the writer's offset reads as zeroes
WriteAt(content, pos, c) ==
    [j \in 1..(IF pos + 1 > Len(content) THEN pos + 1 ELSE Len(content)) |->
        IF j = pos + 1 THEN c
        ELSE IF j <= Len(content) THEN content[j]
        ELSE "zeroes"]

\* a worker takes the invocation from the queue; normalization, URL and path
Start(i) ==
    /\ HeadOfQueue(i)
    /\ WorkerFree
    /\ LET k == Normalize(tasks[i].k_number)
       IN  tasks' = [tasks EXCEPT ![i] =
               [@ EXCEPT !.st = "get", !.k_number = k, !.url = Url(k),
                         !.output_path = OutputPath(k)]]
    /\ UNCHANGED <<k_numbers, max_workers, dir, files, pc, nsub, ci, results,
                   completed, summary>>

\* requests.get and raise_for_status pass
GetOk(i) ==
    /\ tasks[i].st = "get"
    /\ tasks' = [tasks EXCEPT ![i].st = "open"]
    /\ UNCHANGED <<k_numbers, max_workers, dir, files, pc, nsub, ci, results,
                   completed, summary>>

\* GetFails with the output file opened before the request is made
GetFailsAfterOpen(i) ==
    /\ tasks[i].st = "get"
    /\ \E e \in ConnectErrors \cup StatusErrors :
           tasks' = [tasks EXCEPT ![i] = HandleException(@, e)]
    /\ files' = Truncate(files, tasks[i].output_path)
    /\ completed' = Append(completed, i)
    /\ UNCHANGED <<k_numbers, max_workers, dir, pc, nsub, ci, results,
                   summary>>

\* requests.get raises (connect error, timeout) or raise_for_status does
GetFails(i) ==
    /\ tasks[i].st = "get"
    /\ \E e \in ConnectErrors \cup StatusErrors :
           tasks' = [tasks EXCEPT ![i] = HandleException(@, e)]
    /\ completed' = Append(completed, i)
    /\ UNCHANGED <<k_numbers, max_workers, dir, files, pc, nsub, ci, results,
                   summary>>

\* open(output_path, "wb") succeeds
OpenOk(i) ==
    /\ tasks[i].st = "open"
    /\ DirExists
    /\ files' = Truncate(files, tasks[i].output_path)
    /\ tasks' = [tasks EXCEPT ![i] = [@ EXCEPT !.st = "stream", !.pos = 0]]
    /\ UNCHANGED <<k_numbers, max_workers, dir, pc, nsub, ci, results,
                   completed, summary>>

\* open(output_path, "wb") raises
OpenFails(i) ==
    /\ tasks[i].st = "open"
    /\ \E e \in FileErrors :
           tasks' = [tasks EXCEPT ![i] = HandleException(@, e)]
    /\ completed' = Append(completed, i)
    /\ UNCHANGED <<k_numbers, max_workers, dir, files, pc, nsub, ci, results,
                   summary>>

\* iter_content yields the next chunk and f.write writes it
WriteChunk(i) ==
    /\ tasks[i].st = "stream"
    /\ tasks[i].pos < NChunks
    /\ LET t == tasks[i]
           path == t.output_path
       IN  files' = [files EXCEPT ![path] =
                        WriteAt(@, t.pos, Body(t.url)[t.pos + 1])]
    /\ tasks' = [tasks EXCEPT ![i].pos = @ + 1]
    /\ UNCHANGED <<k_numbers, max_workers, dir, pc, nsub, ci, results,
                   completed, summary>>

\* iter_content raises before the body is complete; the with block closes f
StreamFails(i) ==
    /\ tasks[i].st = "stream"
    /\ tasks[i].pos < NChunks
    /\ \E e \in StreamErrors :
           tasks' = [tasks EXCEPT ![i] = HandleException(@, e)]
    /\ completed' = Append(completed, i)
    /\ UNCHANGED <<k_numbers, max_workers, dir, files, pc, nsub, ci, results,
                   summary>>

\* f.write raises; the with block closes f
WriteFails(i) ==
    /\ tasks[i].st = "stream"
    /\ tasks[i].pos < NChunks
    /\ \E e \in FileErrors :
           tasks' = [tasks EXCEPT ![i] = HandleException(@, e)]
    /\ completed' = Append(completed, i)
    /\ UNCHANGED <<k_numbers, max_workers, dir, files, pc, nsub, ci, results,
                   summary>>

\* iter_content is exhausted: f is closed, the invocation returns its success
Finish(i) ==
    /\ tasks[i].st = "stream"
    /\ tasks[i].pos = NChunks
    /\ LET t == tasks[i]
       IN  tasks' = [tasks EXCEPT ![i] =
               [t EXCEPT !.st = "returned",
                         !.ret = Success(t.k_number, t.output_path)]]
    /\ completed' = Append(completed, i)
    /\ UNCHANGED <<k_numbers, max_workers, dir, files, pc, nsub, ci, results,
                   summary>>

-----------------------------------------------------------------------------
(* download_fda_pdfs *)

\* MakeDirs that creates nothing
MakeDirsNoop(d) == d

\* os.makedirs(d, exist_ok=True) on the state of the directory
MakeDirs(d) == IF d = "absent" THEN "created" ELSE d

\* FutureAt with "for future in as_completed(future_to_k)"
FutureAtAsCompleted(n) ==
    IF n <= Len(completed) THEN completed[n]
    ELSE CHOOSE i \in 1..N : ~Finished(tasks[i])

\* the n-th future of "for future in future_to_k": a dict iterates in
\* insertion order, which is the order of submission
FutureAt(n) == n

\* AddEntry that keeps one entry per identifier
AddEntryOnce(list, e) ==
    IF \E j \in 1..Len(list) : list[j].k_number = e.k_number
    THEN list
    ELSE Append(list, e)

\* list.append
AddEntry(list, e) == Append(list, e)

SuccessfulEntry(r) == [k_number |-> r.k_number, filepath |-> r.result]

FailedEntry(r) == [k_number |-> r.k_number, error |-> r.result]

\* os.makedirs(output_dir, exist_ok=True), the empty results, the executor
Makedirs ==
    /\ pc = "makedirs"
    /\ dir' = MakeDirs(dir)
    /\ pc' = "pool"
    /\ UNCHANGED <<k_numbers, max_workers, files, nsub, ci, tasks, results,
                   completed, summary>>

\* os.makedirs raises: the directory cannot be created
MakedirsFails ==
    /\ pc = "makedirs"
    /\ dir = "absent"
    /\ pc' = "raised"
    /\ UNCHANGED <<k_numbers, max_workers, dir, files, nsub, ci, tasks,
                   results, completed, summary>>

\* executor.submit(download_pdf, k, base_url, output_dir) for the next k
Submit ==
    /\ pc = "pool"
    /\ nsub < N
    /\ tasks' = [tasks EXCEPT ![nsub + 1] =
            [@ EXCEPT !.st = "queued", !.k_number = k_numbers[nsub + 1]]]
    /\ nsub' = nsub + 1
    /\ UNCHANGED <<k_numbers, max_workers, dir, files, pc, ci, results,
                   completed, summary>>

\* one iteration of "for future in future_to_k": future.result() blocks until
\* the invocation has finished, then re-raises or yields its tuple
Collect ==
    /\ pc = "pool"
    /\ nsub = N
    /\ ci <= N
    /\ LET future == tasks[FutureAt(ci)]
       IN  /\ Finished(future)
           /\ IF future.st = "raised"
              THEN /\ pc' = "unwinding"
                   /\ UNCHANGED <<ci, results>>
              ELSE /\ results' =
                        IF future.ret.success
                        THEN [results EXCEPT !.successful =
                                 AddEntry(@, SuccessfulEntry(future.ret))]
                        ELSE [results EXCEPT !.failed =
                                 AddEntry(@, FailedEntry(future.ret))]
                   /\ ci' = ci + 1
                   /\ pc' = pc
    /\ UNCHANGED <<k_numbers, max_workers, dir, files, nsub, tasks,
                   completed, summary>>

\* the with block ends normally: shutdown(wait=True) joins the workers
ExitPool ==
    /\ pc = "pool"
    /\ nsub = N
    /\ ci > N
    /\ \A i \in 1..N : Finished(tasks[i])
    /\ pc' = "print"
    /\ UNCHANGED <<k_numbers, max_workers, dir, files, nsub, ci, tasks,
                   results, completed, summary>>

\* the with block ends by the exception of future.result(): shutdown(wait=True)
\* lets the queued invocations run and joins the workers, then it propagates
Unwind ==
    /\ pc = "unwinding"
    /\ \A i \in 1..N : Finished(tasks[i])
    /\ pc' = "raised"
    /\ UNCHANGED <<k_numbers, max_workers, dir, files, nsub, ci, tasks,
                   results, completed, summary>>

\* print(f"Download complete: ...")
PrintSummary ==
    /\ pc = "print"
    /\ summary' = <<Len(results.successful), Len(results.failed)>>
    /\ pc' = "return"
    /\ UNCHANGED <<k_numbers, max_workers, dir, files, nsub, ci, tasks,
                   results, completed>>

\* return results
Return ==
    /\ pc = "return"
    /\ pc' = "returned"
    /\ UNCHANGED <<k_numbers, max_workers, dir, files, nsub, ci, tasks,
                   results, completed, summary>>

Next ==
    \/ Makedirs
    \/ MakedirsFails
    \/ Submit
    \/ Collect
    \/ ExitPool
    \/ Unwind
    \/ PrintSummary
    \/ Return
    \/ \E i \in 1..N :
          \/ Start(i)
          \/ GetOk(i)
          \/ GetFails(i)
          \/ OpenOk(i)
          \/ OpenFails(i)
          \/ WriteChunk(i)
          \/ StreamFails(i)
          \/ WriteFails(i)
          \/ Finish(i)

Spec == Init /\ [][Next]_vars

-----------------------------------------------------------------------------
(* Properties *)

Tasks == 1..N

\* number of positions of list that hold x
Count(list, x) == Cardinality({j \in 1..Len(list) : list[j] = x})

Returned(i) == tasks[i].st = "returned"

\* the entries the outcomes of the invocations in `order` give, by tag
RECURSIVE SuccessesOf(_)
SuccessesOf(order) ==
    IF order = <<>> THEN <<>>
    ELSE LET r == tasks[Head(order)].ret
         IN  (IF Returned(Head(order)) /\ r.success
              THEN <<[k_number |-> r.k_number, filepath |-> r.result]>>
              ELSE <<>>) \o SuccessesOf(Tail(order))

RECURSIVE FailuresOf(_)
FailuresOf(order) ==
    IF order = <<>> THEN <<>>
    ELSE LET r == tasks[Head(order)].ret
         IN  (IF Returned(Head(order)) /\ ~r.success
              THEN <<[k_number |-> r.k_number, error |-> r.result]>>
              ELSE <<>>) \o FailuresOf(Tail(order))

SubmissionOrder == [i \in 1..N |-> i]

\* C1: when download_fda_pdfs returns, every one of the N dispatched
\* invocations has returned and has contributed exactly one entry to the
\* report: the two lists hold N entries together, and each entry occurs in
\* 'successful' (in 'failed') as many times as there are invocations that
\* returned that success (that failure); duplicates are kept.
ReportHoldsEveryOutcomeOnce ==
    pc = "returned" =>
        /\ nsub = N
        /\ \A i \in Tasks : Returned(i)
        /\ Len(results.successful) + Len(results.failed) = N
        /\ \A i \in Tasks :
              LET r == tasks[i].ret
                  same == {j \in Tasks : tasks[j].ret = r}
              IN  IF r.success
                  THEN /\ Count(results.successful,
                               [k_number |-> r.k_number, filepath |-> r.result])
                            = Cardinality(same)
                       /\ Count(results.failed,
                               [k_number |-> r.k_number, error |-> r.result])
                            = 0
                  ELSE /\ Count(results.failed,
                               [k_number |-> r.k_number, error |-> r.result])
                            = Cardinality(same)
                       /\ Count(results.successful,
                               [k_number |-> r.k_number, filepath |-> r.result])
                            = 0

\* C1 witness: a returned call on a list that names one identifier twice,
\* with both outcomes successful and both entries in the report
DuplicatesBothReported ==
    /\ pc = "returned"
    /\ N = 2
    /\ k_numbers[1] = k_numbers[2]
    /\ Len(results.successful) = 2
    /\ results.successful[1] = results.successful[2]

\* C2 as claimed: no exception escapes download_pdf, whatever fails
NoExceptionEscapesDownloadPdf ==
    \A i \in Tasks : tasks[i].st # "raised"

\* C2 amended: no requests exception escapes download_pdf: a connect error,
\* a timeout, a non-success status and an error while streaming the body
\* all end in the returned Failure (normalized k_number, False, message);
\* the only exceptions that escape are those of opening or writing the file.
OnlyFileErrorsEscapeDownloadPdf ==
    \A i \in Tasks :
        /\ tasks[i].exc \notin RequestExceptions
        /\ tasks[i].st = "raised" => tasks[i].exc \in FileErrors
        /\ (Returned(i) /\ ~tasks[i].ret.success) =>
              /\ tasks[i].ret.k_number = Normalize(k_numbers[i])
              /\ \E e \in RequestExceptions : tasks[i].ret.result = <<e>>

\* C2 witness: one invocation returned the Failure of an error met while
\* streaming, after it had written a chunk, and another one let the error
\* of its file escape
StreamFailureReturnedFileErrorEscaped ==
    \E i, j \in Tasks :
        /\ Returned(i)
        /\ tasks[i].ret.result = <<"ChunkedEncodingError">>
        /\ tasks[i].pos > 0
        /\ tasks[j].st = "raised"

\* C3 as claimed: the entries of each list of the returned report are in
\* the order in which the fetches completed
ReportInCompletionOrder ==
    pc = "returned" =>
        /\ results.successful = SuccessesOf(completed)
        /\ results.failed = FailuresOf(completed)

\* C3 amended: the entries of each list of the returned report are in the
\* order in which the identifiers were submitted, whatever the order in
\* which the fetches completed.
ReportInSubmissionOrder ==
    pc = "returned" =>
        /\ results.successful = SuccessesOf(SubmissionOrder)
        /\ results.failed = FailuresOf(SubmissionOrder)

\* C3 witness: the second fetch completed first, both succeeded, and the
\* report lists two different identifiers
ReportedAfterOutOfOrderCompletion ==
    /\ pc = "returned"
    /\ completed = <<2, 1>>
    /\ Len(results.successful) = 2
    /\ results.successful[1] # results.successful[2]

\* C4: at most max_workers invocations of download_pdf have started and not
\* yet finished; while the pool is full no queued invocation has started.
AtMostMaxWorkersRunning ==
    /\ Cardinality({i \in Tasks : tasks[i].st \in {"get", "open", "stream"}})
          <= max_workers
    /\ \A i \in Tasks :
          tasks[i].st \in {"get", "open", "stream"} =>
              \A j \in 1..(i - 1) : tasks[j].st \notin {"new", "queued"}

\* C4 witness: the pool is full and an invocation waits in the queue
PoolFullAndOneQueued ==
    /\ Cardinality({i \in Tasks : tasks[i].st \in {"get", "open", "stream"}})
          = max_workers
    /\ \E i \in Tasks : tasks[i].st = "queued"

\* C5: once the summary is printed or the report returned, no invocation of
\* the batch is still queued or running.
ReportOnlyAfterAllFinished ==
    (summary # <<>> \/ pc = "returned") =>
        /\ nsub = N
        /\ \A i \in Tasks : tasks[i].st \in {"returned", "raised"}

\* C5 witness: a returned call whose pool ran two invocations at once
ReturnedAfterConcurrentRun ==
    /\ pc = "returned"
    /\ summary # <<>>
    /\ N = 2
    /\ completed = <<2, 1>>

\* the failures of the network before the body is streamed
NetworkErrors == {"ConnectionError", "Timeout", "HTTPError"}

\* every step of invocation i leaves the other invocations, the files, the
\* report and the coordinator as they are
StepOfAlone(i) ==
    /\ \A j \in Tasks \ {i} : tasks'[j] = tasks[j]
    /\ files' = files
    /\ results' = results
    /\ pc' = pc
    /\ ci' = ci
    /\ dir' = dir

\* C6: a network failure of one invocation is never an exception of
\* download_pdf or of download_fda_pdfs: the invocation returns the Failure
\* that carries its normalized identifier, and every step it took, from the
\* queue to that failure, changed nothing any other invocation reads or
\* returns: not the other invocations, not the files, not the report.
NetworkFailureIsIsolated ==
    /\ [](\A i \in Tasks : tasks[i].exc \notin NetworkErrors)
    /\ []((pc \in {"unwinding", "raised"} /\ nsub > 0) =>
             \E i \in Tasks : tasks[i].exc = "OSError")
    /\ [][\A i \in Tasks :
             (tasks[i].st \in {"queued", "get"} /\ tasks'[i] # tasks[i]) =>
                 /\ StepOfAlone(i)
                 /\ tasks'[i].st \in {"get", "open", "returned"}
                 /\ tasks'[i].st = "returned" =>
                       \E e \in NetworkErrors :
                           tasks'[i].ret =
                               [k_number |-> Normalize(k_numbers[i]),
                                success |-> FALSE, result |-> <<e>>]]_vars

\* C6 witness: in a returned batch of two, the first fetch failed on the
\* network and is reported failed, the second one is reported successful
OneFailedOnNetworkOtherSucceeded ==
    /\ pc = "returned"
    /\ N = 2
    /\ tasks[1].ret.result \in {<<e>> : e \in NetworkErrors}
    /\ Len(results.failed) = 1
    /\ results.failed[1].k_number = Normalize(k_numbers[1])
    /\ tasks[2].ret.success
    /\ Len(results.successful) = 1

Started(i) == tasks[i].st \notin {"new", "queued"}

\* invocation i is about to call requests.get(url)
Requesting(i) == tasks[i].st = "get"

WithoutTabs(s) == SelectSeq(s, LAMBDA c : c # "\t")

K241380 == <<"K", "2", "4", "1", "3", "8", "0">>

\* C7 as claimed: the bucket of K241380 is 41 and its path pdf41/K241380.pdf
BucketOfK241380Is41 ==
    \A i \in Tasks :
        (Requesting(i) /\ tasks[i].k_number = K241380) =>
            tasks[i].url =
                base_url \o <<"pdf", "4", "1", "/">> \o K241380 \o <<".pdf">>

\* C7 amended: the URL requested is a function of the normalized identifier
\* and the base location alone: the bucket is the slice [1:3] of the
\* identifier, its second and third characters (fewer when the identifier
\* is shorter than three characters), and the URL is the base location
\* followed by pdf<bucket>/<identifier>.pdf (urljoin drops tab characters);
\* for K241380 the bucket is 24 and the path pdf24/K241380.pdf.
UrlIsBaseThenPdfBucketIdentifier ==
    \A i \in Tasks :
        Requesting(i) =>
            LET k == tasks[i].k_number
                bucket == [j \in 1..Min(2, Len(k) - 1) |-> k[j + 1]]
            IN  /\ tasks[i].url =
                      base_url \o WithoutTabs(
                          <<"pdf">> \o bucket \o <<"/">> \o k \o <<".pdf">>)
                /\ k = K241380 =>
                      tasks[i].url =
                          <<"https:", "/", "/", "www.accessdata.fda.gov", "/",
                            "cdrh_docs", "/", "pdf", "2", "4", "/", "K", "2",
                            "4", "1", "3", "8", "0", ".pdf">>

\* C7 witness: the invocation for K241380 has built its URL
UrlBuiltForK241380 ==
    \E i \in Tasks : Requesting(i) /\ tasks[i].k_number = K241380

IsWhitespace(c) == c \in {" ", "\t"}

\* s without its first a and last b characters is s without its leading
\* and trailing whitespace
IsStripOf(a, b, s) ==
    LET t == SubSeq(s, a + 1, Len(s) - b)
    IN  /\ \A j \in 1..a : IsWhitespace(s[j])
        /\ \A j \in (Len(s) - b + 1)..Len(s) : IsWhitespace(s[j])
        /\ t # <<>> => ~IsWhitespace(t[1]) /\ ~IsWhitespace(t[Len(t)])

\* u is t in upper case
IsUpperOf(u, t) ==
    /\ Len(u) = Len(t)
    /\ \A j \in 1..Len(t) :
          \/ u[j] = t[j] /\ t[j] \notin {"a", "b", "d", "i", "k"}
          \/ <<t[j], u[j]>> \in {<<"a", "A">>, <<"b", "B">>, <<"d", "D">>,
                                 <<"i", "I">>, <<"k", "K">>}

\* k is u when u starts with K, and K followed by u when it does not
IsWithLeadingK(k, u) ==
    IF u # <<>> /\ u[1] = "K" THEN k = u ELSE k = <<"K">> \o u

\* k is raw stripped and upper-cased, with K in front
IsNormalFormOf(k, raw) ==
    \E a \in 0..Len(raw) : \E b \in 0..(Len(raw) - a) :
        /\ IsStripOf(a, b, raw)
        /\ \E u \in {k} \cup (IF k = <<>> THEN {} ELSE {Tail(k)}) :
               /\ IsUpperOf(u, SubSeq(raw, a + 1, Len(raw) - b))
               /\ IsWithLeadingK(k, u)

\* the normal forms there can be of an input: it, upper-cased, without some
\* of its ends, with or without a K in front
NormalFormCandidates(raw) ==
    LET up == [j \in 1..Len(raw) |->
                  IF raw[j] \in DOMAIN LowerToUpper
                  THEN LowerToUpper[raw[j]] ELSE raw[j]]
        parts == {SubSeq(up, a, b) : a \in 1..(Len(up) + 1), b \in 0..Len(up)}
    IN  parts \cup {<<"K">> \o t : t \in parts}

\* for each input, the one candidate that is its normal form
NormalFormOf ==
    [raw \in StringsUpTo(MaxLen) \cup Examples |->
        CHOOSE k \in NormalFormCandidates(raw) : IsNormalFormOf(k, raw)]

\* C8: the identifier an invocation works with, and the one its outcome
\* carries, is the input stripped of leading and trailing whitespace and
\* upper-cased, with K prepended iff that does not start with K:
\* "241380" and " k241380 " give "K241380", "badid" gives "KBADID".
NormalizedIsStrippedUpperWithK ==
    \A i \in Tasks :
        Started(i) =>
            LET raw == k_numbers[i]
                k == tasks[i].k_number
            IN  /\ k = NormalFormOf[raw]
                /\ raw = <<"2", "4", "1", "3", "8", "0">> => k = K241380
                /\ raw = <<" ", "k", "2", "4", "1", "3", "8", "0", " ">> =>
                      k = K241380
                /\ raw = <<"b", "a", "d", "i", "d">> =>
                      k = <<"K", "B", "A", "D", "I", "D">>
                /\ Returned(i) => tasks[i].ret.k_number = k

\* C8 witness: the invocation for " k241380 " returned an outcome that
\* carries K241380
OutcomeCarriesNormalizedIdentifier ==
    \E i \in Tasks :
        /\ k_numbers[i] = <<" ", "k", "2", "4", "1", "3", "8", "0", " ">>
        /\ Returned(i)
        /\ tasks[i].ret.k_number = K241380

\* C9: the output directory exists as soon as an invocation is dispatched
\* and from then on, so it exists when the call returns, whether it existed
\* before the call or not, also when every fetch fails and when the list
\* is empty.
DirectoryExistsBeforeDispatch ==
    /\ nsub > 0 => dir # "absent"
    /\ \A i \in Tasks : tasks[i].st # "new" => dir # "absent"
    /\ pc = "returned" => dir # "absent"

\* C9 witness: the call created the directory and returned with every
\* fetch of the batch failed
DirectoryCreatedAndAllFetchesFailed ==
    /\ pc = "returned"
    /\ dir = "created"
    /\ N = 2
    /\ Len(results.failed) = 2

\* C10: when download_fda_pdfs returns, the file of every entry of
\* 'successful' holds the complete body of that identifier's fetch.
SuccessfulFilesHoldCompleteBody ==
    pc = "returned" =>
        \A j \in 1..Len(results.successful) :
            LET e == results.successful[j]
            IN  /\ e.filepath \in DOMAIN files
                /\ files[e.filepath] = Body(Url(e.k_number))

\* invocation i has passed raise_for_status and not yet finished
PastStatusCheck(i) == tasks[i].st \in {"open", "stream"}

\* C11: an invocation that fails before the body is streamed (connect
\* error, timeout, non-success status) leaves every file as it was, neither
\* created nor truncated: the files change only by a step of an invocation
\* that has passed its status check, and the step by which an invocation
\* still at its request ends is the return of a network Failure with the
\* files unchanged.
FailureBeforeStreamingLeavesFiles ==
    /\ [][files' # files =>
             \E i \in Tasks : PastStatusCheck(i) /\ tasks'[i] # tasks[i]]_vars
    /\ [][\A i \in Tasks :
             (Requesting(i) /\ Finished(tasks'[i])) =>
                 /\ files' = files
                 /\ tasks'[i].st = "returned"
                 /\ tasks'[i].ret.result \in {<<e>> : e \in NetworkErrors}]_vars

\* C11 witness: the first fetch of an identifier succeeded, the second
\* fetch of the same identifier then failed at its request, and the file
\* still holds the complete body
EarlierFileKeptAfterRequestFailure ==
    /\ N = 2
    /\ completed = <<1, 2>>
    /\ tasks[1].ret.success
    /\ tasks[2].ret.result \in {<<e>> : e \in NetworkErrors}
    /\ tasks[2].output_path = tasks[1].output_path
    /\ tasks[2].output_path \in DOMAIN files
    /\ files[tasks[2].output_path] = Body(tasks[2].url)

====
